---- MODULE Spec2Model ----
(***************************************************************************)
(* A model of the encore console (src/src/lib.rs): the background thread   *)
(* spawned by Console::new with its line editor (input, cursor, history,   *)
(* curr), the mpsc channel to the host, the shared AtomicBool `closed`,    *)
(* and the host side of the handle (poll, is_open, Drop).                  *)
(*                                                                         *)
(* A Rust String is modelled as the sequence of its UTF-8 bytes, because   *)
(* the code indexes the buffer by byte offsets (String::len, insert,       *)
(* remove, slicing).  A char is the sequence of the bytes that encode it.  *)
(* Option<T> is modelled as a sequence of length at most one.              *)
(***************************************************************************)
EXTENDS Integers, Sequences, FiniteSets, TLC

VARIABLES
    input,      \* lib.rs:77  the line being edited (bytes)
    cursor,     \* lib.rs:80  byte offset into input
    history,    \* lib.rs:78  submitted lines
    curr,       \* lib.rs:79  Option<usize>: the history browsing index
    closed,     \* lib.rs:69  the shared AtomicBool
    mailbox,    \* lib.rs:68  messages in the channel, oldest first
    bgpc,       \* position of the background thread
    event,      \* the event the background thread took from the reader
    eof,        \* the reader has returned None
    nEvents,    \* number of events the reader has yielded
    hostpc,     \* position of the host: "live", "joining", "dropped"
    delivered,  \* the messages poll() has returned, in order
    openSeen,   \* the result of the host's latest is_open()
    sent,       \* the messages the reaction produced, in submission order
    polledShut, \* how many messages poll() returned after is_open() was false
    quitLine    \* the line the reaction maps to None (examples/minimal.rs:7)

vars == <<input, cursor, history, curr, closed, mailbox, bgpc, event, eof,
          nEvents, hostpc, delivered, openSeen, sent, polledShut, quitLine>>

editor == <<input, cursor, history, curr>>

----------------------------------------------------------------------------
(* Bounds of the model *)

\* Terminal width reported by Terminal::terminal_size (lib.rs:73).
TermWidth == 4

\* Number of events the raw input source yields before it only ends or blocks.
MaxEvents == 6

----------------------------------------------------------------------------
(* Option *)

None == <<>>

Some(x) == <<x>>

----------------------------------------------------------------------------
(* Chars and strings as UTF-8 bytes *)

Newline == <<10>>

Space == <<32>>

LowerA == <<97>>

LowerQ == <<113>>

\* U+00E9, a char whose encoding takes two bytes.
EAcute == <<195, 169>>

\* "abc" and "quit", the lines of the end-to-end scenario.
LineAbc == <<97, 98, 99>>

LineQuit == <<113, 117, 105, 116>>

\* A UTF-8 continuation byte (10xxxxxx).
IsCont(b) == b >= 128 /\ b < 192

\* str::is_char_boundary, for a byte offset i counted from 0.
IsCharBoundary(s, i) ==
    \/ i = 0
    \/ i = Len(s)
    \/ i < Len(s) /\ ~IsCont(s[i + 1])

\* char::len_utf8 of the char whose first byte is b.
LenUtf8(b) ==
    IF b < 128 THEN 1 ELSE IF b < 224 THEN 2 ELSE IF b < 240 THEN 3 ELSE 4

\* char::is_whitespace for the chars of one byte.
IsWhitespace(b) == b \in {9, 10, 11, 12, 13, 32}

RECURSIVE TrimStart(_)
TrimStart(s) ==
    IF s # <<>> /\ IsWhitespace(Head(s)) THEN TrimStart(Tail(s)) ELSE s

RECURSIVE TrimEnd(_)
TrimEnd(s) ==
    IF s # <<>> /\ IsWhitespace(s[Len(s)])
    THEN TrimEnd(SubSeq(s, 1, Len(s) - 1))
    ELSE s

\* str::trim
Trim(s) == TrimEnd(TrimStart(s))

\* str::to_uppercase for ASCII letters and the two-byte Latin-1 letters.
ToUppercase(s) ==
    [i \in 1..Len(s) |->
        IF s[i] >= 97 /\ s[i] <= 122 THEN s[i] - 32
        ELSE IF i > 1 /\ s[i - 1] = 195 /\ s[i] >= 160 /\ s[i] <= 190 /\ s[i] # 183
             THEN s[i] - 32
             ELSE s[i]]

\* String::insert(idx, ch) panics unless idx is a char boundary.
InsertPanics(s, idx) == ~(idx <= Len(s) /\ IsCharBoundary(s, idx))

InsertResult(s, idx, ch) ==
    SubSeq(s, 1, idx) \o ch \o SubSeq(s, idx + 1, Len(s))

\* String::remove(idx) panics at the end of the string and off a boundary.
RemovePanics(s, idx) == idx >= Len(s) \/ ~IsCharBoundary(s, idx)

\* String::remove, written once removing the char after the one at idx
RemoveResultNext(s, idx) ==
    SubSeq(s, 1, idx + 1) \o SubSeq(s, idx + 3, Len(s))

RemoveResult(s, idx) ==
    SubSeq(s, 1, idx) \o SubSeq(s, idx + 1 + LenUtf8(s[idx + 1]), Len(s))

\* The byte offset at which the last char of a non-empty string starts.
LastCharStart(s) ==
    CHOOSE i \in 0..(Len(s) - 1) :
        /\ IsCharBoundary(s, i)
        /\ \A j \in (i + 1)..(Len(s) - 1) : ~IsCharBoundary(s, j)

\* String::pop, written once taking the char at the wrong end
PopResultFirst(s) == SubSeq(s, 1 + LenUtf8(s[1]), Len(s))

\* String::pop: the string without its last char (None on an empty string).
PopResult(s) == SubSeq(s, 1, LastCharStart(s))

Min(a, b) == IF a <= b THEN a ELSE b

----------------------------------------------------------------------------
(* The redraw macros *)

\* clear_line!: width as usize - input.len() underflows when the buffer is
\* longer than the terminal is wide.  A debug build panics on the
\* subtraction; a release build wraps and panics with a capacity overflow
\* when it collects that many blanks.
ClearLinePanics(buf) == Len(buf) > TermWidth

\* set_line!(line): clear_line! on the buffer as it is, then input = line,
\* then the slice &input[..cursor.min(input.len())], which panics off a
\* char boundary.
SetLinePanics(buf, line, cur) ==
    \/ ClearLinePanics(buf)
    \/ ~IsCharBoundary(line, Min(cur, Len(line)))

----------------------------------------------------------------------------
(* The host's closures (examples/minimal.rs) *)

\* The command processor: |input: &str| input.to_string()
Parse(line) == line

\* The reaction: None on the quit line, the line in upper case otherwise.
Process(parsed) ==
    IF parsed = quitLine THEN None ELSE Some(ToUppercase(parsed))

----------------------------------------------------------------------------
(* Events of the raw input source *)

Chars == {LowerA, LowerQ, Space, EAcute, Newline}

NoEvent == [kind |-> "None", c |-> <<>>]

CharEvent(ch) == [kind |-> "Char", c |-> ch]

Key(k) == [kind |-> k, c |-> <<>>]

\* InputEvent::Keyboard(KeyEvent::...) for the keys the loop matches, and
\* "Other" for every other input event.
Events ==
    {CharEvent(ch) : ch \in Chars}
        \cup {Key(k) : k \in {"Backspace", "Delete", "Up", "Down",
                               "Left", "Right", "Other"}}

----------------------------------------------------------------------------
(* Initial state: Console::new has returned, the thread is at the reader *)

InitCommon ==
    /\ input = <<>>
    /\ cursor = 0
    /\ history = <<>>
    /\ curr = None
    /\ closed = FALSE
    /\ mailbox = <<>>
    /\ bgpc = "read"
    /\ event = NoEvent
    /\ eof = FALSE
    /\ nEvents = 0
    /\ hostpc = "live"
    /\ delivered = <<>>
    /\ openSeen = TRUE
    /\ sent = <<>>
    /\ polledShut = 0

Init ==
    /\ InitCommon
    /\ quitLine = LowerQ

----------------------------------------------------------------------------
(* The background thread *)

host == <<hostpc, delivered, openSeen, polledShut>>

\* Has the thread finished (returned or unwound)?  What join() waits for.
ThreadFinished == bgpc \in {"done", "panicked"}

\* `for event in reader`: the blocking read yields an event.
BgRead ==
    /\ bgpc = "read"
    /\ nEvents < MaxEvents
    /\ \E e \in Events : event' = e
    /\ nEvents' = nEvents + 1
    /\ bgpc' = "check"
    /\ UNCHANGED <<editor, closed, mailbox, eof, host, sent, quitLine>>

\* `for event in reader`: the reader returns None and the loop ends.
BgReadEnd ==
    /\ bgpc = "read"
    /\ eof' = TRUE
    /\ bgpc' = "exit"
    /\ UNCHANGED <<editor, closed, mailbox, event, nEvents, host, sent, quitLine>>

\* The top of the iteration, written once without the flag check
BgCheckIgnoresFlag ==
    /\ bgpc = "check"
    /\ bgpc' = "handle"
    /\ UNCHANGED <<editor, closed, mailbox, event, eof, nEvents, hostpc,
                   delivered, openSeen, sent, polledShut, quitLine>>

\* if closed.load(Relaxed) { return; }
BgCheck ==
    /\ bgpc = "check"
    /\ bgpc' = IF closed THEN "exit" ELSE "handle"
    /\ event' = IF closed THEN NoEvent ELSE event
    /\ UNCHANGED <<editor, closed, mailbox, eof, nEvents, host, sent, quitLine>>

\* The end of an iteration: back to the reader, or unwinding after a panic.
Continue(panics) ==
    /\ bgpc' = IF panics THEN "panicked" ELSE "read"
    /\ event' = NoEvent

Handling(k) == bgpc = "handle" /\ event.kind = k

\* KeyEvent::Backspace
Backspace ==
    /\ Handling("Backspace")
    /\ IF cursor >= Len(input)
       THEN IF input = <<>>
            THEN /\ UNCHANGED <<input, cursor>>
                 /\ Continue(FALSE)
            ELSE /\ input' = PopResult(input)
                 /\ cursor' = cursor - 1
                 /\ Continue(SetLinePanics(input', input', cursor'))
       ELSE IF input # <<>> /\ cursor > 0
            THEN IF RemovePanics(input, cursor - 1)
                 THEN /\ UNCHANGED <<input, cursor>>
                      /\ Continue(TRUE)
                 ELSE /\ input' = RemoveResult(input, cursor - 1)
                      /\ cursor' = cursor - 1
                      /\ Continue(SetLinePanics(input', input', cursor'))
            ELSE /\ UNCHANGED <<input, cursor>>
                 /\ Continue(FALSE)
    /\ UNCHANGED <<history, curr, closed, mailbox, eof, nEvents, host, sent, quitLine>>

\* KeyEvent::Delete
Delete ==
    /\ Handling("Delete")
    /\ IF cursor < Len(input)
       THEN IF RemovePanics(input, cursor)
            THEN /\ UNCHANGED input
                 /\ Continue(TRUE)
            ELSE /\ input' = RemoveResult(input, cursor)
                 /\ Continue(SetLinePanics(input', input', cursor))
       ELSE /\ UNCHANGED input
            /\ Continue(FALSE)
    /\ UNCHANGED <<cursor, history, curr, closed, mailbox, eof, nEvents, host, sent, quitLine>>

\* KeyEvent::Up, written once leaving the cursor at the start of the line
UpCursorAtStart ==
    /\ Handling("Up")
    /\ LET c0 == IF curr = None THEN Len(history) ELSE curr[1]
           c1 == IF c0 > 0 THEN c0 - 1 ELSE c0
       IN  /\ curr' = Some(c1)
           /\ IF c1 >= Len(history)
              THEN /\ UNCHANGED <<input, cursor>>
                   /\ Continue(TRUE)
              ELSE /\ cursor' = 0
                   /\ input' = history[c1 + 1]
                   /\ Continue(SetLinePanics(input, input', cursor'))
    /\ UNCHANGED <<history, closed, mailbox, eof, nEvents, host, sent, quitLine>>

\* KeyEvent::Up
Up ==
    /\ Handling("Up")
    /\ LET c0 == IF curr = None THEN Len(history) ELSE curr[1]
           c1 == IF c0 > 0 THEN c0 - 1 ELSE c0
       IN  /\ curr' = Some(c1)
           /\ IF c1 >= Len(history)
              THEN \* history[*curr] is out of bounds
                   /\ UNCHANGED <<input, cursor>>
                   /\ Continue(TRUE)
              ELSE /\ cursor' = Len(history[c1 + 1])
                   /\ input' = history[c1 + 1]
                   /\ Continue(SetLinePanics(input, input', cursor'))
    /\ UNCHANGED <<history, closed, mailbox, eof, nEvents, host, sent, quitLine>>

\* KeyEvent::Down
Down ==
    /\ Handling("Down")
    /\ IF curr = None
       THEN /\ UNCHANGED <<input, cursor, curr>>
            /\ Continue(FALSE)
       ELSE IF history = <<>>
            THEN \* history.len() - 1 underflows, or history[c + 1] is out of bounds
                 /\ UNCHANGED <<input, cursor, curr>>
                 /\ Continue(TRUE)
            ELSE LET c == curr[1]
                     more == c < Len(history) - 1
                 IN  /\ curr' = IF more THEN Some(c + 1) ELSE None
                     /\ input' = IF more THEN history[c + 2] ELSE <<>>
                     /\ cursor' = Len(input')
                     /\ Continue(SetLinePanics(input, input', cursor'))
    /\ UNCHANGED <<history, closed, mailbox, eof, nEvents, host, sent, quitLine>>

\* KeyEvent::Left
Left ==
    /\ Handling("Left")
    /\ IF cursor > 0
       THEN /\ cursor' = cursor - 1
            /\ Continue(SetLinePanics(input, input, cursor'))
       ELSE /\ UNCHANGED cursor
            /\ Continue(FALSE)
    /\ UNCHANGED <<input, history, curr, closed, mailbox, eof, nEvents, host, sent, quitLine>>

\* if cursor < input.len(), the guard of KeyEvent::Right (written for the
\* guard alone, and once with the comparison off by one)
CanMoveRightOffByOne == cursor <= Len(input)

CanMoveRight == cursor < Len(input)

\* KeyEvent::Right
Right ==
    /\ Handling("Right")
    /\ IF CanMoveRight
       THEN /\ cursor' = cursor + 1
            /\ Continue(SetLinePanics(input, input, cursor'))
       ELSE /\ UNCHANGED cursor
            /\ Continue(FALSE)
    /\ UNCHANGED <<input, history, curr, closed, mailbox, eof, nEvents, host, sent, quitLine>>

\* Sender::send, written once queueing at the wrong end
SendAtFront(queue, message) ==
    IF hostpc = "dropped" THEN queue ELSE <<message>> \o queue

\* Sender::send: the message is queued unless the receiver has been dropped.
Send(queue, message) ==
    IF hostpc = "dropped" THEN queue ELSE Append(queue, message)

\* if let Some(message) = process(parsed) { send } else { store; return },
\* written once without the return
ReactNoReturn(message) ==
    IF message # None
    THEN /\ mailbox' = Send(mailbox, message[1])
         /\ sent' = Append(sent, message[1])
         /\ bgpc' = "read"
         /\ UNCHANGED closed
    ELSE /\ closed' = TRUE
         /\ bgpc' = "read"
         /\ UNCHANGED <<mailbox, sent>>

\* if let Some(message) = process(parsed) { send } else { store; return }
React(message) ==
    IF message # None
    THEN /\ mailbox' = Send(mailbox, message[1])
         /\ sent' = Append(sent, message[1])
         /\ bgpc' = "read"
         /\ UNCHANGED closed
    ELSE /\ closed' = TRUE
         /\ bgpc' = "exit"
         /\ UNCHANGED <<mailbox, sent>>

\* The submit, written once without curr = None
SubmitKeepsBrowsing ==
    /\ Handling("Char")
    /\ event.c = Newline
    /\ LET line == Trim(input)
       IN  /\ history' = Append(history, line)
           /\ input' = <<>>
           /\ cursor' = 0
           /\ UNCHANGED curr
           /\ React(Process(Parse(line)))
           /\ event' = NoEvent
    /\ UNCHANGED <<eof, nEvents, host, quitLine>>

\* KeyEvent::Char('\n'): submit the line
Submit ==
    /\ Handling("Char")
    /\ event.c = Newline
    /\ LET line == Trim(input)
       IN  /\ history' = Append(history, line)
           /\ input' = <<>>
           /\ cursor' = 0
           /\ curr' = None
           /\ React(Process(Parse(line)))
           /\ event' = NoEvent
    /\ UNCHANGED <<eof, nEvents, host, quitLine>>

\* KeyEvent::Char(c), c != '\n': add the character
AddChar ==
    /\ Handling("Char")
    /\ event.c # Newline
    /\ IF InsertPanics(input, cursor)
       THEN /\ UNCHANGED <<input, cursor>>
            /\ Continue(TRUE)
       ELSE /\ input' = InsertResult(input, cursor, event.c)
            /\ cursor' = cursor + 1
            /\ Continue(SetLinePanics(input', input', cursor'))
    /\ UNCHANGED <<history, curr, closed, mailbox, eof, nEvents, host, sent, quitLine>>

\* `_ => {}` and the events that are not keyboard events
Other ==
    /\ Handling("Other")
    /\ Continue(FALSE)
    /\ UNCHANGED <<editor, closed, mailbox, eof, nEvents, host, sent, quitLine>>

\* The closure returns: its locals, the sender among them, are dropped.
BgExit ==
    /\ bgpc = "exit"
    /\ bgpc' = "done"
    /\ UNCHANGED <<editor, closed, mailbox, event, eof, nEvents, host, sent, quitLine>>

----------------------------------------------------------------------------
(* The host side of the handle *)

\* try_recv, written once reporting Disconnected before looking at the queue
TryRecvDisconnectedFirst(queue) ==
    IF bgpc \in {"done", "panicked"} THEN None
    ELSE IF queue # <<>> THEN Some(Head(queue)) ELSE None

\* Receiver::try_recv().ok(): the oldest message, also after the sender is
\* gone; None on Empty and on Disconnected.
TryRecv(queue) == IF queue # <<>> THEN Some(Head(queue)) ELSE None

\* Console::poll
Poll ==
    /\ hostpc = "live"
    /\ LET got == TryRecv(mailbox)
       IN  IF got # None
           THEN /\ mailbox' = Tail(mailbox)
                /\ delivered' = Append(delivered, got[1])
                /\ polledShut' = IF openSeen THEN polledShut ELSE polledShut + 1
           ELSE UNCHANGED <<mailbox, delivered, polledShut>>
    /\ UNCHANGED <<editor, closed, bgpc, event, eof, nEvents, hostpc, openSeen, sent, quitLine>>

\* Console::is_open
IsOpen ==
    /\ hostpc = "live"
    /\ openSeen' = ~closed
    /\ UNCHANGED <<editor, closed, mailbox, bgpc, event, eof, nEvents, hostpc, delivered, sent, polledShut, quitLine>>

\* Drop::drop, written once storing the wrong value
DropStoreClears ==
    /\ hostpc = "live"
    /\ closed' = FALSE
    /\ hostpc' = "joining"
    /\ UNCHANGED <<editor, mailbox, bgpc, event, eof, nEvents, delivered, openSeen, sent, polledShut, quitLine>>

\* Drop::drop, first statement: closed.store(true, Relaxed)
DropStore ==
    /\ hostpc = "live"
    /\ closed' = TRUE
    /\ hostpc' = "joining"
    /\ UNCHANGED <<editor, mailbox, bgpc, event, eof, nEvents, delivered, openSeen, sent, polledShut, quitLine>>

\* Drop::drop, written once without waiting for the thread
DropJoinDetached ==
    /\ hostpc = "joining"
    /\ hostpc' = "dropped"
    /\ UNCHANGED <<editor, closed, mailbox, bgpc, event, eof, nEvents, delivered, openSeen, sent, polledShut, quitLine>>

\* Drop::drop, second statement: handle.take().unwrap().join() returns
DropJoin ==
    /\ hostpc = "joining"
    /\ ThreadFinished
    /\ hostpc' = "dropped"
    /\ UNCHANGED <<editor, closed, mailbox, bgpc, event, eof, nEvents, delivered, openSeen, sent, polledShut, quitLine>>

----------------------------------------------------------------------------

Next ==
    \/ BgRead
    \/ BgReadEnd
    \/ BgCheck
    \/ Backspace
    \/ Delete
    \/ Up
    \/ Down
    \/ Left
    \/ Right
    \/ Submit
    \/ AddChar
    \/ Other
    \/ BgExit
    \/ Poll
    \/ IsOpen
    \/ DropStore
    \/ DropJoin

Spec == Init /\ [][Next]_vars

\* A step of the background thread that does not wait for the input source.
BgStep ==
    \/ BgCheck
    \/ Backspace
    \/ Delete
    \/ Up
    \/ Down
    \/ Left
    \/ Right
    \/ Submit
    \/ AddChar
    \/ Other
    \/ BgExit

\* The blocking read returns: the source yields an event or ends.
SourceYields == BgRead \/ BgReadEnd

\* The thread runs when it can, a join returns once the thread has
\* finished, and the input source does not stay silent for ever.
FairSpec ==
    /\ Init
    /\ [][Next]_vars
    /\ WF_vars(BgStep)
    /\ WF_vars(DropJoin)
    /\ WF_vars(SourceYields)

----------------------------------------------------------------------------
(* The end-to-end scenario of examples/minimal.rs: the user types "abc",   *)
(* Enter, "quit", Enter, and one more key, unless the input ends first; the *)
(* host polls and asks is_open() in any order and may drop the console.    *)

ScenarioKeys ==
    [i \in 1..3 |-> CharEvent(<<LineAbc[i]>>)]
        \o <<CharEvent(Newline)>>
        \o [i \in 1..4 |-> CharEvent(<<LineQuit[i]>>)]
        \o <<CharEvent(Newline), CharEvent(LowerA)>>

ScenarioInit ==
    /\ InitCommon
    /\ quitLine = LineQuit

\* `for event in reader`: the blocking read yields the next key typed.
BgReadScenario ==
    /\ bgpc = "read"
    /\ nEvents < Len(ScenarioKeys)
    /\ event' = ScenarioKeys[nEvents + 1]
    /\ nEvents' = nEvents + 1
    /\ bgpc' = "check"
    /\ UNCHANGED <<editor, closed, mailbox, eof, host, sent, quitLine>>

ScenarioNext ==
    \/ BgReadScenario
    \/ BgReadEnd
    \/ BgCheck
    \/ Submit
    \/ AddChar
    \/ BgExit
    \/ Poll
    \/ IsOpen
    \/ DropStore
    \/ DropJoin

SpecScenario == ScenarioInit /\ [][ScenarioNext]_vars

----------------------------------------------------------------------------
(* The host loop of the examples: while console.is_open() { poll }, then   *)
(* the console is dropped at the end of main.  hostpc is "live" at the     *)
(* loop test, "body" inside the loop and "leaving" after it.               *)

\* while console.is_open()
ExampleIsOpen ==
    /\ hostpc = "live"
    /\ openSeen' = ~closed
    /\ hostpc' = IF closed THEN "leaving" ELSE "body"
    /\ UNCHANGED <<editor, closed, mailbox, bgpc, event, eof, nEvents, delivered, sent, polledShut, quitLine>>

\* if let Some(s) = console.poll() { println!("{}", s); }
ExamplePoll ==
    /\ hostpc = "body"
    /\ LET got == TryRecv(mailbox)
       IN  IF got # None
           THEN /\ mailbox' = Tail(mailbox)
                /\ delivered' = Append(delivered, got[1])
           ELSE UNCHANGED <<mailbox, delivered>>
    /\ hostpc' = "live"
    /\ UNCHANGED <<editor, closed, bgpc, event, eof, nEvents, openSeen, sent, polledShut, quitLine>>

\* The end of main drops the console: closed.store(true, Relaxed)
ExampleDrop ==
    /\ hostpc = "leaving"
    /\ closed' = TRUE
    /\ hostpc' = "joining"
    /\ UNCHANGED <<editor, mailbox, bgpc, event, eof, nEvents, delivered, openSeen, sent, polledShut, quitLine>>

ExampleNext ==
    \/ BgRead
    \/ BgReadEnd
    \/ BgCheck
    \/ Backspace
    \/ Delete
    \/ Up
    \/ Down
    \/ Left
    \/ Right
    \/ Submit
    \/ AddChar
    \/ Other
    \/ BgExit
    \/ ExampleIsOpen
    \/ ExamplePoll
    \/ ExampleDrop
    \/ DropJoin

SpecExample == Init /\ [][ExampleNext]_vars

----------------------------------------------------------------------------
(* Properties *)

\* The background thread is taking the step that handles a key of kind k.
Handles(k) == Handling(k) /\ event' = NoEvent

\* The background thread is taking the step that submits the line.
SubmitStep == Handles("Char") /\ event.c = Newline

\* "ABC"
LineAbcUpper == <<65, 66, 67>>

\* The messages the reaction of minimal.rs produces for the submitted lines.
RECURSIVE MessagesFor(_)
MessagesFor(lines) ==
    IF lines = <<>> THEN <<>>
    ELSE IF Head(lines) = quitLine THEN MessagesFor(Tail(lines))
    ELSE <<ToUppercase(Head(lines))>> \o MessagesFor(Tail(lines))

\* C1: after every key event, also one that panics the thread, the cursor
\* is a byte offset within the buffer: 0 <= cursor <= input.len().
CursorWithinBuffer == cursor >= 0 /\ cursor <= Len(input)

\* C1 witness: a two-byte char was inserted and the cursor, advanced by one,
\* stands inside it.
CursorInsideWideChar ==
    /\ cursor > 0
    /\ cursor < Len(input)
    /\ IsCont(input[cursor + 1])

\* C2: a submit appends trim(L) to History when it is non-empty and leaves
\* History unchanged when the buffer is empty or only whitespace.
HistoryAppendOnlyNonEmpty ==
    [][SubmitStep =>
        history' = IF Trim(input) # <<>>
                   THEN Append(history, Trim(input))
                   ELSE history]_vars

\* C3: an Up key with an empty History changes nothing and the loop goes
\* back to the reader.
UpOnEmptyHistoryIsNoOp ==
    [][(Handles("Up") /\ history = <<>>) =>
        (UNCHANGED editor /\ bgpc' = "read")]_vars

\* C4: the messages poll() has returned, followed by those still in the
\* channel, are the messages of the submitted lines in submission order:
\* none lost, none twice, none out of order.
MessagesInSubmissionOrder ==
    /\ sent = MessagesFor(history)
    /\ delivered \o mailbox = sent

\* C4 witness: poll() has returned two different messages and a third
\* is waiting.
ThreeMessagesInOrder ==
    /\ Len(delivered) = 2
    /\ delivered[1] # delivered[2]
    /\ Len(mailbox) = 1

\* C5: when the loop has ended because the input ended, the Shutdown Flag
\* is set (nothing but the handle's drop would set it later, and is_open()
\* needs the handle).
InputEndSetsFlag ==
    (eof /\ ThreadFinished /\ hostpc = "live") => closed

\* C6: in the scenario no message is queued for "quit", and once both lines
\* are submitted the flag is set, the loop has returned without reading the
\* key that follows, and "ABC" is the only message there ever is.
ScenarioOutcome ==
    /\ sent \in {<<>>, <<LineAbcUpper>>}
    /\ delivered \o mailbox = sent
    /\ Len(history) <= 2
    /\ Len(history) = 2 =>
         /\ history = <<LineAbc, LineQuit>>
         /\ sent = <<LineAbcUpper>>
         /\ closed
         /\ bgpc \in {"exit", "done"}
         /\ nEvents = 9
         /\ event = NoEvent

\* C6 witness: both lines are submitted, poll() has returned "ABC" and
\* is_open() has returned false.
ScenarioFinished ==
    /\ Len(history) = 2
    /\ delivered = <<LineAbcUpper>>
    /\ mailbox = <<>>
    /\ ~openSeen
    /\ hostpc = "live"

\* C7 as claimed: once the flag is set no key event changes the editor and
\* no message is produced.
NothingAfterFlagSet ==
    [][closed => (UNCHANGED editor /\ sent' = sent)]_vars

\* C7 amended: once the flag is set and the thread is not between its flag
\* check and the handling of the event it checked for, no key event is
\* handled and no message is produced, and the thread never gets past a
\* flag check again.
NothingAfterFlagSeen ==
    [][(closed /\ bgpc # "handle") =>
        (UNCHANGED editor /\ sent' = sent /\ bgpc' # "handle")]_vars

\* C7 witness: the host has stored the flag while a submit was pending at
\* the flag check.
PendingEventAtFlagCheck ==
    /\ closed
    /\ hostpc = "joining"
    /\ bgpc = "check"
    /\ event = CharEvent(Newline)

\* C8: where drop has returned, the flag is set and the thread has finished.
DropWaitsForThread ==
    hostpc = "dropped" => (closed /\ ThreadFinished)

\* C8 witness: drop has returned after the thread, which had handled keys,
\* left its loop at the flag check.
DroppedAfterFlagCheck ==
    /\ hostpc = "dropped"
    /\ bgpc = "done"
    /\ ~eof
    /\ history # <<>>
    /\ sent = MessagesFor(history)

\* C9: with the thread already returned on its own, drop's store leaves
\* the flag as it was (it was final) and changes nothing else, and the
\* join never waits.
DropAfterStopChangesNothing ==
    /\ [][(bgpc = "done" /\ hostpc = "live" /\ hostpc' = "joining") =>
            UNCHANGED <<editor, closed, mailbox, bgpc, event, eof, nEvents,
                        delivered, openSeen, sent, polledShut>>]_vars
    /\ []((hostpc = "joining" /\ ThreadFinished) => ENABLED DropJoin)

\* C10: after is_open() has returned false and the thread has finished,
\* nothing is lost: the messages returned so far and those in the channel
\* are all the messages produced, and the next poll() returns the oldest
\* one not yet returned.
MailboxSurvivesShutdown ==
    (hostpc = "live" /\ ~openSeen /\ ThreadFinished) =>
        /\ delivered \o mailbox = sent
        /\ polledShut <= Len(delivered)
        /\ mailbox # <<>> => TryRecv(mailbox) = Some(sent[Len(delivered) + 1])

\* C10 witness: the thread has finished, and poll() has returned two
\* messages after is_open() had returned false.
PolledAfterShutdown ==
    /\ hostpc = "live"
    /\ bgpc = "done"
    /\ polledShut = 2
    /\ delivered = sent

\* C11: the Shutdown Flag is false after construction and no step of the
\* background thread or of the handle takes it from true back to false.
FlagIsMonotone ==
    /\ ~closed
    /\ [][closed => closed']_vars

\* C11 witness: the background thread had set the flag (the reaction
\* returned None) and the handle's drop has stored it again and returned.
FlagStoredTwice ==
    /\ closed
    /\ hostpc = "dropped"
    /\ history # <<>>
    /\ history[Len(history)] = quitLine

\* C12: every submit leaves the buffer empty, the cursor at 0 and the
\* History Cursor at None, whether or not the reaction returns a message.
SubmitClearsState ==
    [][SubmitStep => (input' = <<>> /\ cursor' = 0 /\ curr' = None)]_vars

\* C12 witness: a submit is about to be handled while History is being
\* browsed, with a non-empty buffer and the cursor inside it.
SubmitWhileBrowsing ==
    /\ Handling("Char")
    /\ event.c = Newline
    /\ curr # None
    /\ input # <<>>
    /\ cursor > 0
    /\ cursor < Len(input)

\* C13: the History Cursor is None or an index i with 0 <= i < len(History).
HistoryCursorInRange ==
    curr = None \/ (curr[1] >= 0 /\ curr[1] < Len(history))

\* C14: with the input source yielding again or ending, a drop that has
\* stored the flag returns; an event that reaches the flag check after the
\* store is discarded, changing neither editor nor Mailbox; and while the
\* thread waits in the blocking read the drop does not return.
DropReturnsOnceInputYields ==
    /\ (hostpc = "joining") ~> (hostpc = "dropped")
    /\ [][(closed /\ bgpc = "check") =>
            (UNCHANGED <<editor, mailbox, sent>> /\ bgpc' \in {"check", "exit"})]_vars
    /\ [][(hostpc = "joining" /\ bgpc = "read") => hostpc' # "dropped"]_vars

\* C14 witness: the one event the source yielded was discarded at the flag
\* check, the thread returned and the drop has returned.
DroppedAfterDiscardedEvent ==
    /\ hostpc = "dropped"
    /\ bgpc = "done"
    /\ ~eof
    /\ nEvents = 1
    /\ editor = <<<<>>, 0, <<>>, None>>
    /\ sent = <<>>

\* C15: when the host loop of the examples has ended, no message is left
\* unpolled in the Mailbox: the host has received every message produced.
ExampleHostReceivesAll ==
    hostpc \in {"leaving", "joining", "dropped"} =>
        (mailbox = <<>> /\ delivered = sent)

\* The buffer s without the byte at offset i (counted from 0).
WithoutByteAt(s, i) == SubSeq(s, 1, i) \o SubSeq(s, i + 2, Len(s))

\* C16: Backspace with cursor > 0 removes the char just before the cursor
\* and moves the cursor back by one; with cursor = 0 it changes nothing;
\* History and the History Cursor are never changed and the loop goes on.
BackspaceRemovesBeforeCursor ==
    [][Handles("Backspace") =>
        /\ IF cursor > 0
           THEN /\ input' = WithoutByteAt(input, cursor - 1)
                /\ cursor' = cursor - 1
           ELSE UNCHANGED <<input, cursor>>
        /\ UNCHANGED <<history, curr>>
        /\ bgpc' = "read"]_vars

\* C16 witness: a Backspace is about to be handled with the cursor in the
\* middle of a buffer of different chars, while History is being browsed.
BackspaceInTheMiddle ==
    /\ Handling("Backspace")
    /\ cursor > 0
    /\ cursor < Len(input)
    /\ input[cursor] # input[cursor + 1]
    /\ curr # None

\* The index the History Cursor moves to on Up, for a non-empty History.
UpIndex == IF curr = None THEN Len(history) - 1
           ELSE IF curr[1] > 0 THEN curr[1] - 1 ELSE 0

\* C17: with a non-empty History, Up moves to the most recent entry from
\* None and one entry back otherwise (not below the oldest); Down moves one
\* entry forward, or to None with an empty buffer from the last entry, and
\* changes nothing from None.  Afterwards the buffer is the entry at the new
\* index and the cursor is at its end.
BrowsingLoadsEntry ==
    [][/\ (Handles("Up") /\ history # <<>>) =>
            /\ curr' = Some(UpIndex)
            /\ input' = history[UpIndex + 1]
            /\ cursor' = Len(input')
            /\ history' = history
            /\ bgpc' = "read"
       /\ (Handles("Down") /\ curr = None) =>
            (UNCHANGED editor /\ bgpc' = "read")
       /\ (Handles("Down") /\ curr # None) =>
            /\ curr' = IF curr[1] + 1 < Len(history) THEN Some(curr[1] + 1) ELSE None
            /\ input' = IF curr' = None THEN <<>> ELSE history[curr'[1] + 1]
            /\ cursor' = Len(input')
            /\ history' = history
            /\ bgpc' = "read"]_vars

\* C17 witness: browsing stands at the older of two different entries, the
\* buffer holds that entry and the cursor is at its end.
BrowsingAtOldest ==
    /\ Len(history) = 2
    /\ history[1] # history[2]
    /\ history[1] # <<>>
    /\ curr = Some(0)
    /\ input = history[1]
    /\ cursor = Len(input)
    /\ bgpc = "read"

\* C18: a char other than newline is inserted at the cursor, the cursor
\* advances by one and the buffer grows by one, measured as the code
\* measures them; History and the History Cursor stay as they are.
AddCharInsertsOne ==
    [][(Handles("Char") /\ event.c # Newline) =>
        /\ input' = InsertResult(input, cursor, event.c)
        /\ cursor' = cursor + 1
        /\ Len(input') = Len(input) + 1
        /\ UNCHANGED <<history, curr>>]_vars

\* C19: Delete with cursor < len removes the char at the cursor; at the end
\* of the buffer it changes nothing; cursor, History and the History Cursor
\* are never changed and the loop goes on.
DeleteRemovesAtCursor ==
    [][Handles("Delete") =>
        /\ input' = IF cursor < Len(input)
                    THEN WithoutByteAt(input, cursor)
                    ELSE input
        /\ UNCHANGED <<cursor, history, curr>>
        /\ bgpc' = "read"]_vars

\* C19 witness: a Delete is about to be handled with the cursor inside a
\* buffer, before a char that differs from the one after it.
DeleteInTheMiddle ==
    /\ Handling("Delete")
    /\ cursor > 0
    /\ cursor + 1 < Len(input)
    /\ input[cursor + 1] # input[cursor + 2]

\* C20: the number of blanks clear_line! computes, the terminal width minus
\* the length of the buffer, never underflows: no buffer is longer than the
\* terminal is wide.
BlanksDoNotUnderflow == TermWidth - Len(input) >= 0

====
